---- MODULE Spec2Model ----
(***************************************************************************)
(* Block model and dual-format export pipeline of the cover letter builder *)
(* (src/app.py): header detection, block segmentation, reassembly of the   *)
(* editable text and the two export backends; the runs of the app script   *)
(* with its sidebar state (contacts, selectors, export file name); and the *)
(* command line tool (src/cover_letter_generator).                         *)
(*                                                                         *)
(* A str is a sequence of one-character strings; a list[str] is a sequence *)
(* of such sequences.                                                      *)
(***************************************************************************)
EXTENDS Integers, Sequences, FiniteSets, TLC

VARIABLES
    pc,          \* position in the render / edit / export cycle
    round,       \* number of reassembled texts fed back so far
    text,        \* the raw text being parsed (rendered_text / edited_text)
    fallback,    \* candidate_lines_plain
    sections,    \* [candidate_block, company_block]
    hdr,         \* header lines of the last detection
    consumed,    \* consumed line count of the last detection
    blocks,      \* blocks of the last segmentation
    out,         \* text_area_value of the last reassembly
    prevHdr,     \* header lines that went into the text now being parsed
    prevBlocks,  \* blocks that went into the text now being parsed
    docx,        \* paragraphs of the document build_docx made
    pdf,         \* story of the document build_pdf made
    form,        \* values of the sidebar inputs read by the current run
    edited_text, \* value of the text area in the current run
    session,     \* st.session_state
    run,         \* locals of the current run of the app script
    cli          \* file system and process state of the command line tool

\* the state of the interactive app and of the command line tool
appVars == <<form, edited_text, session, run, cli>>

vars == <<pc, round, text, fallback, sections, hdr, consumed, blocks, out,
          prevHdr, prevBlocks, docx, pdf, form, edited_text, session, run, cli>>

----------------------------------------------------------------------------
(* Bounds of the model *)

\* characters of a text rendered or typed in a run of the app
MaxAppTextLen == 2
\* entries of the contact list
MaxContacts == 3
\* characters of a raw text
MaxTextLen == 5
\* lines of candidate_lines_plain
MaxFallbackLines == 2
\* reassembled texts fed back into the parser
MaxRounds == 2
\* characters (line breaks included) of a header given to the reassembler
MaxHeaderChars == 3
\* characters (line breaks included) of the blocks given to the reassembler
MaxBodyChars == 5
\* characters of a raw text with markup characters
MaxPdfTextLen == 4

----------------------------------------------------------------------------
(* Python str operations *)

NL == "\n"
SP == " "

\* str.strip() and str.rstrip() without argument remove these
Whitespace == {" ", "\n", "\t", "\r"}

RECURSIVE LStrip(_)
LStrip(s) ==
    IF s # <<>> /\ Head(s) \in Whitespace THEN LStrip(Tail(s)) ELSE s

RECURSIVE RStrip(_)
RStrip(s) ==
    IF s # <<>> /\ s[Len(s)] \in Whitespace
    THEN RStrip(SubSeq(s, 1, Len(s) - 1))
    ELSE s

Strip(s) == LStrip(RStrip(s))

RECURSIVE LStripNL(_)
LStripNL(s) == IF s # <<>> /\ Head(s) = NL THEN LStripNL(Tail(s)) ELSE s

RECURSIVE RStripNL(_)
RStripNL(s) ==
    IF s # <<>> /\ s[Len(s)] = NL
    THEN RStripNL(SubSeq(s, 1, Len(s) - 1))
    ELSE s

\* s.strip("\n")
StripNL(s) == LStripNL(RStripNL(s))

\* s.startswith(" ")
StartsWithSpace(s) == s # <<>> /\ Head(s) = SP

\* index of the first "\n" of s, 0 if there is none
RECURSIVE FindNL(_, _)
FindNL(s, i) ==
    IF i > Len(s) THEN 0
    ELSE IF s[i] = NL THEN i
    ELSE FindNL(s, i + 1)

\* s.split("\n")
RECURSIVE Split(_)
Split(s) ==
    LET k == FindNL(s, 1) IN
    IF k = 0 THEN <<s>>
    ELSE <<SubSeq(s, 1, k - 1)>> \o Split(SubSeq(s, k + 1, Len(s)))

\* sep.join(parts)
RECURSIVE Join(_, _)
Join(sep, parts) ==
    IF parts = <<>> THEN <<>>
    ELSE IF Len(parts) = 1 THEN parts[1]
    ELSE parts[1] \o sep \o Join(sep, Tail(parts))

\* a slice that gives the whole list back when k reaches its length
DropOrAll(lst, k) == IF k >= Len(lst) THEN lst ELSE SubSeq(lst, k + 1, Len(lst))

\* lst[k:]
Drop(lst, k) == IF k >= Len(lst) THEN <<>> ELSE SubSeq(lst, k + 1, Len(lst))

----------------------------------------------------------------------------
(* HeaderDetector *)

\* the scan that does not count a blank line met inside the header region
RECURSIVE ScanHeaderBlankNotCounted(_, _, _, _, _)
ScanHeaderBlankNotCounted(lines, i, collected, cons, started) ==
    IF i > Len(lines) THEN [collected |-> collected, consumed |-> cons]
    ELSE
        LET line == lines[i] IN
        IF ~started /\ Strip(line) = <<>>
        THEN ScanHeaderBlankNotCounted(lines, i + 1, collected, cons + 1, FALSE)
        ELSE IF StartsWithSpace(line)
        THEN ScanHeaderBlankNotCounted(lines, i + 1,
                                       Append(collected, Strip(line)), cons + 1, TRUE)
        ELSE IF Strip(line) = <<>> /\ collected # <<>>
        THEN ScanHeaderBlankNotCounted(lines, i + 1, collected, cons, TRUE)
        ELSE [collected |-> collected, consumed |-> cons]

\* the scan that counts the line it stops at among the consumed lines
RECURSIVE ScanHeaderConsumesTerminator(_, _, _, _, _)
ScanHeaderConsumesTerminator(lines, i, collected, cons, started) ==
    IF i > Len(lines) THEN [collected |-> collected, consumed |-> cons]
    ELSE
        LET line == lines[i] IN
        IF ~started /\ Strip(line) = <<>>
        THEN ScanHeaderConsumesTerminator(lines, i + 1, collected, cons + 1, FALSE)
        ELSE IF StartsWithSpace(line)
        THEN ScanHeaderConsumesTerminator(lines, i + 1,
                                          Append(collected, Strip(line)), cons + 1, TRUE)
        ELSE IF Strip(line) = <<>> /\ collected # <<>>
        THEN ScanHeaderConsumesTerminator(lines, i + 1, collected, cons + 1, TRUE)
        ELSE [collected |-> collected, consumed |-> cons + 1]

\* the for loop of extract_candidate_lines_from_text, from line i on
RECURSIVE ScanHeader(_, _, _, _, _)
ScanHeader(lines, i, collected, cons, started) ==
    IF i > Len(lines) THEN [collected |-> collected, consumed |-> cons]
    ELSE
        LET line == lines[i] IN
        IF ~started /\ Strip(line) = <<>>
        THEN ScanHeader(lines, i + 1, collected, cons + 1, FALSE)
        ELSE IF StartsWithSpace(line)
        THEN ScanHeader(lines, i + 1, Append(collected, Strip(line)), cons + 1, TRUE)
        ELSE IF Strip(line) = <<>> /\ collected # <<>>
        THEN ScanHeader(lines, i + 1, collected, cons + 1, TRUE)
        ELSE [collected |-> collected, consumed |-> cons]

\* the detector without its fallback policy: returns whatever the scan collected
extract_without_fallback(t, default_lines) ==
    IF default_lines = <<>> THEN [lines |-> <<>>, consumed |-> 0]
    ELSE
        LET r == ScanHeader(Split(t), 1, <<>>, 0, FALSE) IN
        [lines |-> r.collected, consumed |-> r.consumed]

\* the detector without the early return for an empty fallback
extract_without_empty_guard(t, default_lines) ==
    LET r == ScanHeader(Split(t), 1, <<>>, 0, FALSE) IN
    IF r.collected # <<>>
    THEN [lines |-> r.collected, consumed |-> r.consumed]
    ELSE [lines |-> default_lines, consumed |-> Len(default_lines)]

\* the detector answering a failed scan with the fallback lines and the
\* number of lines the scan consumed
extract_fallback_scan_count(t, default_lines) ==
    IF default_lines = <<>> THEN [lines |-> <<>>, consumed |-> 0]
    ELSE
        LET r == ScanHeader(Split(t), 1, <<>>, 0, FALSE) IN
        IF r.collected # <<>>
        THEN [lines |-> r.collected, consumed |-> r.consumed]
        ELSE [lines |-> default_lines, consumed |-> r.consumed]

extract_candidate_lines_from_text(t, default_lines) ==
    IF default_lines = <<>> THEN [lines |-> <<>>, consumed |-> 0]
    ELSE
        LET r == ScanHeader(Split(t), 1, <<>>, 0, FALSE) IN
        IF r.collected # <<>>
        THEN [lines |-> r.collected, consumed |-> r.consumed]
        ELSE [lines |-> default_lines, consumed |-> Len(default_lines)]

----------------------------------------------------------------------------
(* BlockSegmenter *)

\* while remaining and not remaining[0].strip(): remaining.pop(0)
RECURSIVE PopLeadingBlank(_)
PopLeadingBlank(remaining) ==
    IF remaining # <<>> /\ Strip(Head(remaining)) = <<>>
    THEN PopLeadingBlank(Tail(remaining))
    ELSE remaining

\* the for loop of the segmenter flushing the current block at every blank
\* line, whether or not it holds a line
RECURSIVE AccumulateNoGuard(_, _, _)
AccumulateNoGuard(remaining, current, acc) ==
    IF remaining = <<>>
    THEN IF current # <<>> THEN Append(acc, current) ELSE acc
    ELSE
        LET line == Head(remaining) IN
        IF Strip(line) = <<>>
        THEN AccumulateNoGuard(Tail(remaining), <<>>, Append(acc, current))
        ELSE AccumulateNoGuard(Tail(remaining), Append(current, RStrip(line)), acc)

\* the for loop of the segmenter passing over a blank line without closing
\* the current block
RECURSIVE AccumulateNoFlush(_, _, _)
AccumulateNoFlush(remaining, current, acc) ==
    IF remaining = <<>>
    THEN IF current # <<>> THEN Append(acc, current) ELSE acc
    ELSE
        LET line == Head(remaining) IN
        IF Strip(line) = <<>>
        THEN AccumulateNoFlush(Tail(remaining), current, acc)
        ELSE AccumulateNoFlush(Tail(remaining), Append(current, RStrip(line)), acc)

\* the for loop of _split_blocks and the flush after it
RECURSIVE Accumulate(_, _, _)
Accumulate(remaining, current, acc) ==
    IF remaining = <<>>
    THEN IF current # <<>> THEN Append(acc, current) ELSE acc
    ELSE
        LET line == Head(remaining) IN
        IF Strip(line) = <<>>
        THEN IF current # <<>>
             THEN Accumulate(Tail(remaining), <<>>, Append(acc, current))
             ELSE Accumulate(Tail(remaining), <<>>, acc)
        ELSE Accumulate(Tail(remaining), Append(current, RStrip(line)), acc)

\* the for loop of the segmenter with line.strip() in place of line.rstrip()
RECURSIVE AccumulateStripped(_, _, _)
AccumulateStripped(remaining, current, acc) ==
    IF remaining = <<>>
    THEN IF current # <<>> THEN Append(acc, current) ELSE acc
    ELSE
        LET line == Head(remaining) IN
        IF Strip(line) = <<>>
        THEN IF current # <<>>
             THEN AccumulateStripped(Tail(remaining), <<>>, Append(acc, current))
             ELSE AccumulateStripped(Tail(remaining), <<>>, acc)
        ELSE AccumulateStripped(Tail(remaining), Append(current, Strip(line)), acc)

\* the segmenter storing fully stripped lines
split_blocks_strip(t, skip_lines) ==
    AccumulateStripped(PopLeadingBlank(Drop(Split(t), skip_lines)), <<>>, <<>>)

split_blocks(t, skip_lines) ==
    Accumulate(PopLeadingBlank(Drop(Split(t), skip_lines)), <<>>, <<>>)

----------------------------------------------------------------------------
(* Reassembler *)

\* the loop over blocks[block_index:]
RECURSIVE BlockTexts(_)
BlockTexts(bs) ==
    IF bs = <<>> THEN <<>>
    ELSE
        LET block_text == StripNL(Join(<<NL>>, Head(bs))) IN
        IF block_text # <<>>
        THEN <<block_text>> \o BlockTexts(Tail(bs))
        ELSE BlockTexts(Tail(bs))

\* the reassembler that merges the first block into the header unit whatever
\* the merge flag says
assemble_always_merge(candidate_lines, bs, include_company_block) ==
    LET first ==
            IF candidate_lines # <<>>
            THEN IF bs # <<>>
                 THEN <<Join(<<NL>>, candidate_lines \o bs[1])>>
                 ELSE <<Join(<<NL>>, candidate_lines)>>
            ELSE <<>>
        block_index == IF candidate_lines # <<>> /\ bs # <<>> THEN 1 ELSE 0
        text_blocks == first \o BlockTexts(Drop(bs, block_index))
    IN Strip(Join(<<NL, NL>>, text_blocks))

\* the reassembler that merges the first block into the header unit and then
\* writes every block, the first one again
assemble_repeating_first_block(candidate_lines, bs, include_company_block) ==
    LET first ==
            IF candidate_lines # <<>>
            THEN IF include_company_block /\ bs # <<>>
                 THEN <<Join(<<NL>>, candidate_lines \o bs[1])>>
                 ELSE <<Join(<<NL>>, candidate_lines)>>
            ELSE <<>>
        text_blocks == first \o BlockTexts(bs)
    IN Strip(Join(<<NL, NL>>, text_blocks))

assemble_text_value(candidate_lines, bs, include_company_block) ==
    LET first ==
            IF candidate_lines # <<>>
            THEN IF include_company_block /\ bs # <<>>
                 THEN <<Join(<<NL>>, candidate_lines \o bs[1])>>
                 ELSE <<Join(<<NL>>, candidate_lines)>>
            ELSE <<>>
        block_index ==
            IF candidate_lines # <<>> /\ include_company_block /\ bs # <<>>
            THEN 1 ELSE 0
        text_blocks == first \o BlockTexts(Drop(bs, block_index))
    IN Strip(Join(<<NL, NL>>, text_blocks))

----------------------------------------------------------------------------
(* DocumentExporter *)

\* html.escape(s), quote=True
EscapeChar(ch) ==
    CASE ch = "&" -> <<"&", "a", "m", "p", ";">>
      [] ch = "<" -> <<"&", "l", "t", ";">>
      [] ch = ">" -> <<"&", "g", "t", ";">>
      [] ch = "\"" -> <<"&", "q", "u", "o", "t", ";">>
      [] ch = "'" -> <<"&", "#", "x", "2", "7", ";">>
      [] OTHER -> <<ch>>

\* html.escape(s, quote=False): the quote characters stay as they are
RECURSIVE html_escape_no_quote(_)
html_escape_no_quote(s) ==
    IF s = <<>> THEN <<>>
    ELSE (IF Head(s) \in {"\"", "'"} THEN <<Head(s)>> ELSE EscapeChar(Head(s)))
         \o html_escape_no_quote(Tail(s))

RECURSIVE html_escape(_)
html_escape(s) ==
    IF s = <<>> THEN <<>> ELSE EscapeChar(Head(s)) \o html_escape(Tail(s))

BR == <<"<", "b", "r", "/", ">">>
NbspEntity == <<"&", "n", "b", "s", "p", ";">>

\* spaceAfter of body_style, in points
BodySpaceAfter == 8

\* spaceAfter of candidate_style, in points
CandidateSpaceAfter == 6

\* the space ReportLab leaves after a paragraph of the given style
StyleSpaceAfter(style) ==
    IF style = "Candidate" THEN CandidateSpaceAfter ELSE BodySpaceAfter

\* build_pdf.para_text
para_text(lines) ==
    Join(BR, [i \in 1..Len(lines) |->
                IF Strip(lines[i]) # <<>> THEN html_escape(lines[i]) ELSE NbspEntity])

\* add_block that leaves every paragraph left-aligned
add_block_left(lines, align_right) ==
    [i \in 1..Len(lines) |->
        [text |-> IF align_right THEN Strip(lines[i]) ELSE lines[i],
         align |-> "LEFT",
         spacer |-> FALSE]]

\* build_docx.add_block: one paragraph per line
add_block(lines, align_right) ==
    [i \in 1..Len(lines) |->
        [text |-> IF align_right THEN Strip(lines[i]) ELSE lines[i],
         align |-> IF align_right THEN "RIGHT" ELSE "LEFT",
         spacer |-> FALSE]]

\* spacer = doc.add_paragraph("")
Spacer == [text |-> <<>>, align |-> "LEFT", spacer |-> TRUE]

\* the body loop of build_docx adding a spacer after every block, the last
\* one included
RECURSIVE DocxBodySpacerAfterEach(_)
DocxBodySpacerAfterEach(bs) ==
    IF bs = <<>> THEN <<>>
    ELSE add_block(Head(bs), FALSE) \o <<Spacer>> \o DocxBodySpacerAfterEach(Tail(bs))

\* for idx, block in enumerate(blocks) of build_docx
RECURSIVE DocxBody(_)
DocxBody(bs) ==
    IF bs = <<>> THEN <<>>
    ELSE add_block(Head(bs), FALSE)
         \o (IF Len(bs) > 1 THEN <<Spacer>> ELSE <<>>)
         \o DocxBody(Tail(bs))

\* candidate_count that does not look at the header flag
CandidateCountIgnoringFlag(sections_state, candidate_lines) ==
    Len(candidate_lines)

\* candidate_count of both backends
CandidateCount(sections_state, candidate_lines) ==
    IF sections_state.candidate_block THEN Len(candidate_lines) ELSE 0

\* build_docx skipping the consumed lines whatever the header flag says
build_docx_always_skip(t, sections_state, candidate_lines, candidate_line_consumed) ==
    LET candidate_count == CandidateCount(sections_state, candidate_lines)
        bs == split_blocks(t, candidate_line_consumed)
    IN (IF candidate_count # 0 THEN add_block(candidate_lines, TRUE) ELSE <<>>)
       \o DocxBody(bs)

\* the paragraphs of the document build_docx saves
build_docx(t, sections_state, candidate_lines, candidate_line_consumed) ==
    LET candidate_count == CandidateCount(sections_state, candidate_lines)
        bs == split_blocks(t, IF candidate_count # 0
                              THEN candidate_line_consumed ELSE 0)
    IN (IF candidate_count # 0 THEN add_block(candidate_lines, TRUE) ELSE <<>>)
       \o DocxBody(bs)

\* build_pdf without the placeholder paragraph of an empty story
build_pdf_no_placeholder(t, sections_state, candidate_lines, candidate_line_consumed) ==
    LET candidate_count == CandidateCount(sections_state, candidate_lines)
        bs == split_blocks(t, IF candidate_count # 0
                              THEN candidate_line_consumed ELSE 0)
    IN (IF candidate_count # 0
        THEN <<[text |-> para_text(candidate_lines), style |-> "Candidate"]>>
        ELSE <<>>)
       \o [i \in 1..Len(bs) |-> [text |-> para_text(bs[i]), style |-> "Body"]]

\* the story build_pdf hands to doc.build
build_pdf(t, sections_state, candidate_lines, candidate_line_consumed) ==
    LET candidate_count == CandidateCount(sections_state, candidate_lines)
        bs == split_blocks(t, IF candidate_count # 0
                              THEN candidate_line_consumed ELSE 0)
        story ==
            (IF candidate_count # 0
             THEN <<[text |-> para_text(candidate_lines), style |-> "Candidate"]>>
             ELSE <<>>)
            \o [i \in 1..Len(bs) |-> [text |-> para_text(bs[i]), style |-> "Body"]]
    IN IF story = <<>> THEN <<[text |-> <<>>, style |-> "Body"]>> ELSE story

----------------------------------------------------------------------------
(* Inputs *)

SeqsUpTo(S, n) == UNION {[1..k -> S] : k \in 0..n}

\* raw texts: letters, spaces and line breaks
Texts == SeqsUpTo({"a", SP, NL}, MaxTextLen)

\* candidate_lines_plain: no header at all, or lines that may be blank
Fallbacks == SeqsUpTo({<<>>, <<"a">>, <<SP, "a">>}, MaxFallbackLines)

\* the section flags. The export backends take the flags and the header lines
\* as separate parameters, so the flags are drawn independently of the
\* fallback (build_candidate_lines itself returns no line when candidate_block
\* is off).
Flags == [candidate_block : BOOLEAN, company_block : BOOLEAN]

NoDoc == <<"none">>

----------------------------------------------------------------------------
(* The render / edit / export cycle (src/app.py:886-1005) *)

\* no sidebar form, no session and no command line run
NoForm == [name |-> <<>>]
NoSession == [empty |-> TRUE]
NoRun == [empty |-> TRUE]
NoCli == [empty |-> TRUE]

\* the app script and the command line tool are not running
AppIdle ==
    /\ form = NoForm
    /\ edited_text = <<>>
    /\ session = NoSession
    /\ run = NoRun
    /\ cli = NoCli

Init ==
    /\ pc = "start"
    /\ round = 0
    /\ text \in Texts
    /\ fallback \in Fallbacks
    /\ sections \in Flags
    /\ hdr = <<>>
    /\ consumed = 0
    /\ blocks = <<>>
    /\ out = <<>>
    /\ prevHdr = <<>>
    /\ prevBlocks = <<>>
    /\ docx = NoDoc
    /\ pdf = NoDoc
    /\ AppIdle

\* extract_candidate_lines_from_text(text, candidate_lines_plain)
Detect ==
    /\ pc = "start"
    /\ LET r == extract_candidate_lines_from_text(text, fallback) IN
        /\ hdr' = r.lines
        /\ consumed' = r.consumed
    /\ pc' = "detected"
    /\ UNCHANGED <<round, text, fallback, sections, blocks, out,
                   prevHdr, prevBlocks, docx, pdf>>
    /\ UNCHANGED appVars

\* _split_blocks(text, skip_lines=consumed if lines else 0)
Segment ==
    /\ pc = "detected"
    /\ blocks' = split_blocks(text, IF hdr # <<>> THEN consumed ELSE 0)
    /\ pc' = "segmented"
    /\ UNCHANGED <<round, text, fallback, sections, hdr, consumed, out,
                   prevHdr, prevBlocks, docx, pdf>>
    /\ UNCHANGED appVars

\* text_area_value = assemble_text_value(lines, blocks,
\* bool(sections.get("company_block"))), or the parsed text if that is empty
Assemble ==
    /\ pc = "segmented"
    /\ round < MaxRounds
    /\ LET text_area_value ==
            assemble_text_value(hdr, blocks, sections.company_block)
       IN out' = IF text_area_value = <<>> THEN text ELSE text_area_value
    /\ pc' = "assembled"
    /\ UNCHANGED <<round, text, fallback, sections, hdr, consumed, blocks,
                   prevHdr, prevBlocks, docx, pdf>>
    /\ UNCHANGED appVars

\* the reassembled text comes back as the text to parse
Reparse ==
    /\ pc = "assembled"
    /\ text' = out
    /\ prevHdr' = hdr
    /\ prevBlocks' = blocks
    /\ round' = round + 1
    /\ pc' = "start"
    /\ UNCHANGED <<fallback, sections, hdr, consumed, blocks, out, docx, pdf>>
    /\ UNCHANGED appVars

\* build_docx(edited_text, sections, candidate_lines_for_export, consumed)
BuildDocx ==
    /\ pc = "segmented"
    /\ docx' = build_docx(text, sections, hdr, consumed)
    /\ pc' = "docx"
    /\ UNCHANGED <<round, text, fallback, sections, hdr, consumed, blocks, out,
                   prevHdr, prevBlocks, pdf>>
    /\ UNCHANGED appVars

\* build_pdf(edited_text, sections, candidate_lines_for_export, consumed)
BuildPdf ==
    /\ pc = "docx"
    /\ pdf' = build_pdf(text, sections, hdr, consumed)
    /\ pc' = "exported"
    /\ UNCHANGED <<round, text, fallback, sections, hdr, consumed, blocks, out,
                   prevHdr, prevBlocks, docx>>
    /\ UNCHANGED appVars

Next ==
    \/ Detect
    \/ Segment
    \/ Assemble
    \/ Reparse
    \/ BuildDocx
    \/ BuildPdf

Spec == Init /\ [][Next]_vars

----------------------------------------------------------------------------
(* The reassembler on arbitrary header lines and paragraph blocks *)

\* a line of a ParagraphBlock: not blank, right-stripped
ValidLine(l) == Strip(l) # <<>> /\ RStrip(l) = l

\* lines of a text in which single empty lines separate runs of valid lines
CanonicalLines(ls) ==
    /\ \A i \in 1..Len(ls) : ls[i] = <<>> \/ ValidLine(ls[i])
    /\ ls[1] # <<>>
    /\ ls[Len(ls)] # <<>>
    /\ \A i \in 1..(Len(ls) - 1) : ~(ls[i] = <<>> /\ ls[i + 1] = <<>>)

\* index of the first empty line of ls, 0 if there is none
RECURSIVE FindEmpty(_, _)
FindEmpty(ls, i) ==
    IF i > Len(ls) THEN 0
    ELSE IF ls[i] = <<>> THEN i
    ELSE FindEmpty(ls, i + 1)

RECURSIVE GroupBlocks(_)
GroupBlocks(ls) ==
    LET k == FindEmpty(ls, 1) IN
    IF k = 0 THEN <<ls>>
    ELSE <<SubSeq(ls, 1, k - 1)>> \o GroupBlocks(SubSeq(ls, k + 1, Len(ls)))

\* header line lists: none, or the lines of any short text
HeaderInputs ==
    {<<>>} \cup {Split(t) : t \in SeqsUpTo({"a", SP, NL}, MaxHeaderChars)}

\* sequences of ParagraphBlocks: none, or the blocks of any short canonical text
BlockInputs ==
    {<<>>} \cup
    {GroupBlocks(Split(t)) :
        t \in {u \in SeqsUpTo({"a", SP, NL}, MaxBodyChars) : CanonicalLines(Split(u))}}

InitAsm ==
    /\ pc = "segmented"
    /\ round = 0
    /\ text = <<>>
    /\ hdr \in HeaderInputs
    /\ fallback = hdr
    /\ consumed = Len(hdr)
    /\ blocks \in BlockInputs
    /\ sections \in {f \in Flags : f.candidate_block}
    /\ out = <<>>
    /\ prevHdr = <<>>
    /\ prevBlocks = <<>>
    /\ docx = NoDoc
    /\ pdf = NoDoc
    /\ AppIdle

NextAsm ==
    \/ Assemble
    \/ Reparse
    \/ Detect
    \/ Segment

SpecAsm == InitAsm /\ [][NextAsm]_vars

----------------------------------------------------------------------------
(* The export of texts that hold markup characters *)

PdfTexts == SeqsUpTo({"&", "<", ">", "\"", "'", SP, NL}, MaxPdfTextLen)

InitPdf ==
    /\ pc = "start"
    /\ round = 0
    /\ text \in PdfTexts
    /\ fallback \in {<<>>, <<<<"&">>>>, <<<<SP, "&">>>>}
    /\ sections \in {f \in Flags : ~f.company_block}
    /\ hdr = <<>>
    /\ consumed = 0
    /\ blocks = <<>>
    /\ out = <<>>
    /\ prevHdr = <<>>
    /\ prevBlocks = <<>>
    /\ docx = NoDoc
    /\ pdf = NoDoc
    /\ AppIdle

NextPdf ==
    \/ Detect
    \/ Segment
    \/ BuildDocx
    \/ BuildPdf

SpecPdf == InitPdf /\ [][NextPdf]_vars

----------------------------------------------------------------------------
(* One run of the app script after another (src/app.py:866-1005) *)

\* build_candidate_lines that does not look at the header flag
build_candidate_lines_ignoring_flag(context, sections_state) ==
    LET stripped(value) == IF value # <<>> THEN <<Strip(value)>> ELSE <<>>
    IN stripped(context.name) \o stripped(context.address_line1)
       \o stripped(context.address_line2)
       \o (IF context.home_location # <<>> THEN <<context.home_location>> ELSE <<>>)

build_candidate_lines(context, sections_state) ==
    LET stripped(value) == IF value # <<>> THEN <<Strip(value)>> ELSE <<>>
    IN IF ~sections_state.candidate_block THEN <<>>
       ELSE stripped(context.name) \o stripped(context.address_line1)
            \o stripped(context.address_line2)
            \o (IF context.home_location # <<>> THEN <<context.home_location>>
                ELSE <<>>)

\* rendered_text.replace("\n\n", "\n", 1)
RECURSIVE ReplaceFirstBlankLine(_)
ReplaceFirstBlankLine(t) ==
    IF Len(t) < 2 THEN t
    ELSE IF t[1] = NL /\ t[2] = NL THEN Tail(t)
    ELSE <<Head(t)>> \o ReplaceFirstBlankLine(Tail(t))

\* the texts the template renders and the user types into the text area
AppTexts == SeqsUpTo({"a", SP, NL}, MaxAppTextLen)

\* the context values the candidate lines and the default file name are
\* built from
Forms ==
    [name : {<<>>, <<"a", SP>>},
     address_line1 : {<<>>},
     address_line2 : {<<>>},
     home_location : {<<>>, <<SP, "a">>},
     company_value : {<<>>, <<"c">>},
     position_value : {<<>>, <<"p">>},
     today : {<<>>}]

\* what the user may leave in the file name input
FileNameInputs == {<<SP>>, <<"x">>}

cover_letter == <<"c", "o", "v", "e", "r", "_", "l", "e", "t", "t", "e", "r">>

\* the default file name without the "cover_letter" of last resort
default_export_name_no_fallback(f) ==
    Join(<<SP, "-", SP>>,
         SelectSeq(<<Strip(f.company_value), Strip(f.position_value), f.today>>,
                   LAMBDA x : x # <<>>))

\* " - ".join(filter(None, [company, position, today])) or "cover_letter"
default_export_name(f) ==
    LET parts == SelectSeq(<<Strip(f.company_value), Strip(f.position_value), f.today>>,
                           LAMBDA x : x # <<>>)
        joined == Join(<<SP, "-", SP>>, parts)
    IN IF joined # <<>> THEN joined ELSE cover_letter

\* the locals of a run before the script has set them
NewRun ==
    [preview_candidate_lines |-> <<>>,
     preview_consumed |-> 0,
     preview_blocks |-> <<>>,
     preview_parts |-> <<>>,
     export_name_input |-> <<>>,
     export_name |-> <<>>,
     docx_args |-> <<>>,
     pdf_args |-> <<>>]

InitApp ==
    /\ pc = "run"
    /\ round = 0
    /\ form \in Forms
    /\ sections \in Flags
    /\ session = [has_export_filename_state |-> FALSE,
                  export_filename_state |-> <<>>,
                  export_name_custom |-> FALSE]
    /\ run = NewRun
    /\ edited_text = <<>>
    /\ cli = NoCli
    /\ text = <<>>
    /\ fallback = <<>>
    /\ hdr = <<>>
    /\ consumed = 0
    /\ blocks = <<>>
    /\ out = <<>>
    /\ prevHdr = <<>>
    /\ prevBlocks = <<>>
    /\ docx = NoDoc
    /\ pdf = NoDoc

\* candidate_lines_plain = build_candidate_lines(context, sections);
\* rendered_text = template.render(**context), without its first blank line
\* when both the header and the company block are on
Render ==
    /\ pc = "run"
    /\ fallback' = build_candidate_lines(form, sections)
    /\ \E rendered_text \in AppTexts :
         text' = IF sections.candidate_block /\ sections.company_block
                 THEN ReplaceFirstBlankLine(rendered_text)
                 ELSE rendered_text
    /\ pc' = "start"
    /\ UNCHANGED <<round, sections, hdr, consumed, blocks, out, prevHdr,
                   prevBlocks, docx, pdf>>
    /\ UNCHANGED appVars

\* edited_text = st.text_area(..., value=text_area_value): the value shown,
\* or whatever the user has typed over it
TextArea ==
    /\ pc = "assembled"
    /\ \E typed \in {out} \cup AppTexts : edited_text' = typed
    /\ pc' = "edited"
    /\ UNCHANGED <<round, text, fallback, sections, hdr, consumed, blocks, out,
                   prevHdr, prevBlocks, docx, pdf, form, session, run, cli>>

\* the parts of the on-screen preview
Preview ==
    /\ pc = "edited"
    /\ LET r == extract_candidate_lines_from_text(edited_text, fallback)
           preview_blocks ==
               split_blocks(edited_text, IF r.lines # <<>> THEN r.consumed ELSE 0)
           escaped(lines) == [i \in 1..Len(lines) |-> html_escape(lines[i])]
       IN run' = [run EXCEPT
                    !.preview_candidate_lines = r.lines,
                    !.preview_consumed = r.consumed,
                    !.preview_blocks = preview_blocks,
                    !.preview_parts =
                        (IF r.lines # <<>>
                         THEN <<[align |-> "right", lines |-> escaped(r.lines)]>>
                         ELSE <<>>)
                        \o [i \in 1..Len(preview_blocks) |->
                              [align |-> "left", lines |-> escaped(preview_blocks[i])]]]
    /\ pc' = "previewed"
    /\ UNCHANGED <<round, text, fallback, sections, hdr, consumed, blocks, out,
                   prevHdr, prevBlocks, docx, pdf, form, edited_text, session, cli>>

\* the export file name and its session state
ExportName ==
    /\ pc = "previewed"
    /\ LET default == default_export_name(form)
           export_filename_state ==
               IF ~session.has_export_filename_state \/ ~session.export_name_custom
               THEN default ELSE session.export_filename_state
       IN \E export_name_input \in {export_filename_state} \cup FileNameInputs :
            LET raw_export_name == Strip(export_name_input)
                export_name == IF raw_export_name = <<>> THEN default
                               ELSE raw_export_name
            IN /\ run' = [run EXCEPT !.export_name_input = export_name_input,
                                     !.export_name = export_name]
               /\ session' = [has_export_filename_state |-> TRUE,
                              export_filename_state |-> export_name,
                              export_name_custom |->
                                  raw_export_name # <<>> /\ export_name # default]
    /\ pc' = "named"
    /\ UNCHANGED <<round, text, fallback, sections, hdr, consumed, blocks, out,
                   prevHdr, prevBlocks, docx, pdf, form, edited_text, cli>>

\* the export call sites handing both backends the header of the rendered
\* text, detected before the text area was read
ExportStale ==
    /\ pc = "named"
    /\ docx' = build_docx(edited_text, sections, hdr, consumed)
    /\ pdf' = build_pdf(edited_text, sections, hdr, consumed)
    /\ run' = [run EXCEPT
                 !.docx_args = <<edited_text, sections, hdr, consumed>>,
                 !.pdf_args = <<edited_text, sections, hdr, consumed>>]
    /\ pc' = "done"
    /\ UNCHANGED <<round, text, fallback, sections, hdr, consumed, blocks, out,
                   prevHdr, prevBlocks, form, edited_text, session, cli>>

\* the detection for export and the two build calls
Export ==
    /\ pc = "named"
    /\ LET r == extract_candidate_lines_from_text(edited_text, fallback)
           candidate_lines_for_export == r.lines
           consumed_candidate_lines == r.consumed
       IN /\ docx' = build_docx(edited_text, sections,
                                candidate_lines_for_export, consumed_candidate_lines)
          /\ pdf' = build_pdf(edited_text, sections,
                              candidate_lines_for_export, consumed_candidate_lines)
          /\ run' = [run EXCEPT
                       !.docx_args = <<edited_text, sections,
                                       candidate_lines_for_export,
                                       consumed_candidate_lines>>,
                       !.pdf_args = <<edited_text, sections,
                                      candidate_lines_for_export,
                                      consumed_candidate_lines>>]
    /\ pc' = "done"
    /\ UNCHANGED <<round, text, fallback, sections, hdr, consumed, blocks, out,
                   prevHdr, prevBlocks, form, edited_text, session, cli>>

\* the user changes the sidebar inputs, the section flags or the text:
\* Streamlit runs the script again from the top with the session state kept
Rerun ==
    /\ pc = "done"
    /\ round + 1 < MaxRounds
    /\ round' = round + 1
    /\ \/ form' \in Forms /\ UNCHANGED sections
       \/ sections' \in Flags /\ UNCHANGED form
    /\ run' = NewRun
    /\ edited_text' = <<>>
    /\ text' = <<>>
    /\ fallback' = <<>>
    /\ hdr' = <<>>
    /\ consumed' = 0
    /\ blocks' = <<>>
    /\ out' = <<>>
    /\ docx' = NoDoc
    /\ pdf' = NoDoc
    /\ pc' = "run"
    /\ UNCHANGED <<prevHdr, prevBlocks, session, cli>>

NextApp ==
    \/ Render
    \/ Detect
    \/ Segment
    \/ Assemble
    \/ TextArea
    \/ Preview
    \/ ExportName
    \/ Export
    \/ Rerun

SpecApp == InitApp /\ [][NextApp]_vars

----------------------------------------------------------------------------
(* Header round trip *)

\* C1: for every non-empty header line list H, every sequence B of paragraph
\* blocks and both values of merge, the detector run with fallback H on
\* assemble_text_value(H, B, merge) returns header lines equal to H.
C1_HeaderRoundTrip ==
    (round = 1 /\ pc = "detected" /\ prevHdr # <<>>) => hdr = prevHdr

\* a two-line header reassembled with a block, merged, and detected again
C1_Witness ==
    /\ round = 1
    /\ pc = "detected"
    /\ Len(prevHdr) = 2
    /\ prevBlocks # <<>>
    /\ sections.company_block
    /\ fallback = prevHdr
    /\ hdr = prevHdr

----------------------------------------------------------------------------
(* Body round trip *)

\* C2 as stated: for every non-empty sequence B of paragraph blocks,
\* _split_blocks(assemble_text_value([], B, False), 0) equals B exactly,
\* leading whitespace of every line included.
C2_BodyRoundTrip_Orig ==
    (round = 1 /\ pc = "segmented" /\ prevHdr = <<>> /\ prevBlocks # <<>>
        /\ ~sections.company_block)
    => blocks = prevBlocks

\* B with the leading whitespace of its very first line removed
LStripFirstLine(bs) ==
    [bs EXCEPT ![1] = [bs[1] EXCEPT ![1] = LStrip(bs[1][1])]]

\* C2 amended: the round trip returns B with the leading whitespace of the
\* first line of the first block removed (the reassembler trims its result),
\* so it returns B exactly when that line does not start with whitespace;
\* block order and every other line are preserved, leading whitespace included.
C2_BodyRoundTrip ==
    (round = 1 /\ pc = "segmented" /\ prevHdr = <<>> /\ prevBlocks # <<>>
        /\ ~sections.company_block)
    => /\ blocks = LStripFirstLine(prevBlocks)
       /\ (LStrip(prevBlocks[1][1]) = prevBlocks[1][1] => blocks = prevBlocks)

\* two blocks, the second starting with an indented line, came back unchanged
C2_Witness ==
    /\ round = 1
    /\ pc = "segmented"
    /\ prevHdr = <<>>
    /\ ~sections.company_block
    /\ Len(prevBlocks) = 2
    /\ StartsWithSpace(prevBlocks[2][1])
    /\ blocks = prevBlocks

----------------------------------------------------------------------------
(* What an exported document shows *)

IsBlank(l) == Strip(l) = <<>>

IsNotBlank(l) == ~IsBlank(l)

\* the right-stripped non-blank lines of a text, in source order
NonBlankRStripped(t) ==
    LET ls == SelectSeq(Split(t), IsNotBlank) IN
    [i \in 1..Len(ls) |-> RStrip(ls[i])]

IsTextParagraph(p) == ~p.spacer

\* the texts of the paragraphs of a docx document that are not spacers
DocxLines(doc) ==
    LET ps == SelectSeq(doc, IsTextParagraph) IN
    [i \in 1..Len(ps) |-> ps[i].text]

\* index of the first "<br/>" of m, 0 if there is none
RECURSIVE FindBR(_, _)
FindBR(m, i) ==
    IF i + Len(BR) - 1 > Len(m) THEN 0
    ELSE IF SubSeq(m, i, i + Len(BR) - 1) = BR THEN i
    ELSE FindBR(m, i + 1)

\* the pieces of a paragraph's markup between its line breaks
RECURSIVE SplitBR(_)
SplitBR(m) ==
    LET k == FindBR(m, 1) IN
    IF k = 0 THEN <<m>>
    ELSE <<SubSeq(m, 1, k - 1)>> \o SplitBR(SubSeq(m, k + Len(BR), Len(m)))

\* the markup of every line of a PDF story; an empty paragraph shows no line
RECURSIVE PdfLines(_)
PdfLines(story) ==
    IF story = <<>> THEN <<>>
    ELSE (IF Head(story).text = <<>> THEN <<>> ELSE SplitBR(Head(story).text))
         \o PdfLines(Tail(story))

\* the header lines the scan of the detector collects from a text
Collected(t) == ScanHeader(Split(t), 1, <<>>, 0, FALSE).collected

----------------------------------------------------------------------------
(* No content is dropped by export *)

\* C3 as stated: for every edited text and non-empty fallback, the number of
\* text lines each backend renders (header lines plus body lines, spacers
\* excluded) equals the number of non-blank lines of the text, with the header
\* flag enabled and with it disabled.
C3_NoContentDropped_Orig ==
    (pc = "exported" /\ fallback # <<>>)
    => /\ Len(DocxLines(docx)) = Len(NonBlankRStripped(text))
       /\ Len(PdfLines(pdf)) = Len(NonBlankRStripped(text))

\* C3 amended: with the header flag disabled the number of lines each backend
\* renders equals the number of non-blank lines of the text; with the flag
\* enabled it is never smaller, and it is equal whenever the detector collected
\* its header lines from the text and none of them is empty (a fallback header
\* or an empty header line adds lines the text does not hold).
C3_NoContentDropped ==
    (pc = "exported" /\ fallback # <<>>)
    => LET d == Len(DocxLines(docx))
           p == Len(PdfLines(pdf))
           nb == Len(NonBlankRStripped(text))
       IN IF sections.candidate_block
          THEN /\ d >= nb
               /\ p >= nb
               /\ (Collected(text) # <<>> /\ \A i \in 1..Len(hdr) : hdr[i] # <<>>)
                  => (d = nb /\ p = nb)
          ELSE d = nb /\ p = nb

\* a text with a detected header and a body, exported with the flag disabled
C3_Witness ==
    /\ pc = "exported"
    /\ ~sections.candidate_block
    /\ Collected(text) # <<>>
    /\ hdr = Collected(text)
    /\ consumed < Len(Split(text))
    /\ Len(DocxLines(docx)) >= 2
    /\ Len(DocxLines(docx)) = Len(NonBlankRStripped(text))
    /\ Len(PdfLines(pdf)) = Len(NonBlankRStripped(text))

----------------------------------------------------------------------------
(* Empty input *)

\* C9 as stated: for empty text with an effective header count of zero both
\* backends finish and the document each produces holds zero paragraph units.
C9_EmptyInput_Orig ==
    (pc = "exported" /\ text = <<>> /\ CandidateCount(sections, hdr) = 0)
    => (docx = <<>> /\ pdf = <<>>)

\* C9 amended: for empty text with an effective header count of zero both
\* backends finish; the docx document holds zero paragraphs and the PDF story
\* holds exactly one paragraph, the empty left-aligned placeholder, so neither
\* document shows a line of text.
C9_EmptyInput ==
    (pc = "exported" /\ text = <<>> /\ CandidateCount(sections, hdr) = 0)
    => /\ docx = <<>>
       /\ pdf = <<[text |-> <<>>, style |-> "Body"]>>
       /\ PdfLines(pdf) = <<>>

\* the empty text went through both backends with no header to render
C9_Witness ==
    /\ pc = "exported"
    /\ text = <<>>
    /\ CandidateCount(sections, hdr) = 0
    /\ docx = <<>>
    /\ Len(pdf) = 1

----------------------------------------------------------------------------
(* Export with the header flag disabled *)

\* C10: with the header flag disabled each backend ignores the consumed line
\* count and the header lines: it renders no right-aligned unit, and the body
\* lines it renders are exactly the right-stripped non-blank lines of the text
\* from line 0 on, in source order, would-be header lines included.
C10_HeaderDisabled ==
    (pc = "exported" /\ ~sections.candidate_block)
    => LET ref == NonBlankRStripped(text) IN
       /\ \A i \in 1..Len(docx) : docx[i].align # "RIGHT"
       /\ \A i \in 1..Len(pdf) : pdf[i].style # "Candidate"
       /\ DocxLines(docx) = ref
       /\ PdfLines(pdf) = [i \in 1..Len(ref) |-> html_escape(ref[i])]

\* a text whose header was detected and consumed, exported with the flag off
C10_Witness ==
    /\ pc = "exported"
    /\ ~sections.candidate_block
    /\ Collected(text) # <<>>
    /\ hdr = Collected(text)
    /\ consumed >= 2
    /\ Len(DocxLines(docx)) >= 2
    /\ StartsWithSpace(DocxLines(docx)[1])

----------------------------------------------------------------------------
(* Fixed point of the cycle *)

\* C4: for every text T, fallback F and merge flag, with
\* T1 = cycle(T) and T2 = cycle(T1), the header lines and blocks detected and
\* segmented from T2 equal those detected and segmented from T1.
C4_FixedPoint ==
    (round = 2 /\ pc = "segmented")
    => (hdr = prevHdr /\ blocks = prevBlocks)

----------------------------------------------------------------------------
(* Re-segmentation of the canonical text *)

\* C5: for every raw text T, non-empty fallback F and merge flag, with
\* (H, c) the detection on T and B the blocks of T after c lines, detecting
\* and segmenting assemble_text_value(H, B, merge) again yields H and B.
C5_Resegmentation ==
    (round = 1 /\ pc = "segmented" /\ fallback # <<>>)
    => (hdr = prevHdr /\ blocks = prevBlocks)

----------------------------------------------------------------------------
(* Consumed count after reassembly *)

\* C6: for every header H of n >= 1 lines and every non-empty block sequence
\* B, detecting again on assemble_text_value(H, B, False) with fallback H
\* returns a consumed line count of n + 1.
C6_ConsumedAfterReassembly ==
    (round = 1 /\ pc = "detected" /\ prevHdr # <<>> /\ prevBlocks # <<>>
        /\ ~sections.company_block)
    => consumed = Len(prevHdr) + 1

----------------------------------------------------------------------------
(* Leading-space convention of the canonical text *)

\* C7: whenever headerLines is non-empty, every header line appears in the
\* output of assemble_text_value prefixed with exactly one space character,
\* and no body line does.
C7_LeadingSpaceConvention ==
    (round = 0 /\ pc = "assembled" /\ hdr # <<>>)
    => LET ls == Split(out) IN
       /\ Len(ls) >= Len(hdr)
       /\ \A i \in 1..Len(hdr) : ls[i] = <<SP>> \o hdr[i]
       /\ \A i \in (Len(hdr) + 1)..Len(ls) : ~StartsWithSpace(ls[i])

----------------------------------------------------------------------------
(* PDF escaping round trip *)

NBSP == "NBSP"   \* the character U+00A0

Entities ==
    {<<<<"&", "a", "m", "p", ";">>, "&">>,
     <<<<"&", "l", "t", ";">>, "<">>,
     <<<<"&", "g", "t", ";">>, ">">>,
     <<<<"&", "q", "u", "o", "t", ";">>, "\"">>,
     <<<<"&", "#", "x", "2", "7", ";">>, "'">>,
     <<NbspEntity, NBSP>>}

\* the entities that m starts with
EntitiesAt(m) ==
    {e \in Entities : Len(e[1]) <= Len(m) /\ SubSeq(m, 1, Len(e[1])) = e[1]}

\* the text a reader of the markup extracts: every entity replaced by its character
RECURSIVE html_unescape(_)
html_unescape(m) ==
    IF m = <<>> THEN <<>>
    ELSE IF EntitiesAt(m) # {}
    THEN LET e == CHOOSE x \in EntitiesAt(m) : TRUE IN
         <<e[2]>> \o html_unescape(SubSeq(m, Len(e[1]) + 1, Len(m)))
    ELSE <<Head(m)>> \o html_unescape(Tail(m))

\* no character the markup parser would interpret stands unescaped in m
RECURSIVE NoRawMarkup(_)
NoRawMarkup(m) ==
    IF m = <<>> THEN TRUE
    ELSE IF EntitiesAt(m) # {}
    THEN LET e == CHOOSE x \in EntitiesAt(m) : TRUE IN
         NoRawMarkup(SubSeq(m, Len(e[1]) + 1, Len(m)))
    ELSE Head(m) \notin {"&", "<", ">", "\"", "'"} /\ NoRawMarkup(Tail(m))

\* the concatenation of the lines of all blocks
RECURSIVE Flatten(_)
Flatten(bs) == IF bs = <<>> THEN <<>> ELSE Head(bs) \o Flatten(Tail(bs))

\* the lines build_pdf is given to render: header lines, then block lines
PdfSourceLines ==
    LET n == CandidateCount(sections, hdr) IN
    (IF n # 0 THEN hdr ELSE <<>>)
    \o Flatten(split_blocks(text, IF n # 0 THEN consumed ELSE 0))

\* C8 as stated: for every line build_pdf renders, the markup generated for it
\* holds no unescaped markup character and un-escaping it yields exactly the
\* original line.
C8_PdfEscaping_Orig ==
    (pc = "exported")
    => LET src == PdfSourceLines
           ms == PdfLines(pdf)
       IN /\ Len(ms) = Len(src)
          /\ \A i \in 1..Len(src) :
                NoRawMarkup(ms[i]) /\ html_unescape(ms[i]) = src[i]

\* C8 amended: the markup of every line holds no unescaped markup character,
\* and un-escaping it yields exactly the original line for every line that is
\* not blank; a blank (empty or whitespace-only) line is rendered as the
\* non-breaking placeholder instead.
C8_PdfEscaping ==
    (pc = "exported")
    => LET src == PdfSourceLines
           ms == PdfLines(pdf)
       IN /\ Len(ms) = Len(src)
          /\ \A i \in 1..Len(src) :
                /\ NoRawMarkup(ms[i])
                /\ IsNotBlank(src[i]) => html_unescape(ms[i]) = src[i]
                /\ IsBlank(src[i]) => ms[i] = NbspEntity

\* a line that holds an ampersand and an angle bracket was rendered and read back
C8_Witness ==
    /\ pc = "exported"
    /\ \E i \in 1..Len(PdfSourceLines) :
          /\ \E j \in 1..Len(PdfSourceLines[i]) : PdfSourceLines[i][j] = "&"
          /\ \E j \in 1..Len(PdfSourceLines[i]) : PdfSourceLines[i][j] = "<"
          /\ PdfLines(pdf)[i] # PdfSourceLines[i]
          /\ html_unescape(PdfLines(pdf)[i]) = PdfSourceLines[i]

----------------------------------------------------------------------------
(* The detector *)

\* the non-blank lines of a text, as they are
NonBlankLines(t) == SelectSeq(Split(t), IsNotBlank)

\* number of blank lines before the first non-blank line of ls
RECURSIVE LeadingBlanks(_)
LeadingBlanks(ls) ==
    IF ls # <<>> /\ IsBlank(Head(ls)) THEN 1 + LeadingBlanks(Tail(ls)) ELSE 0

\* C11: for every text, the detector with an empty fallback returns the empty
\* header list and a consumed count of 0, even when the text starts with
\* space-prefixed lines.
C11_EmptyFallback ==
    (pc = "detected" /\ fallback = <<>>) => (hdr = <<>> /\ consumed = 0)

\* a text that starts with a space-prefixed line, detected with no fallback
C11_Witness ==
    /\ pc = "detected"
    /\ fallback = <<>>
    /\ StartsWithSpace(text)
    /\ IsNotBlank(Split(text)[1])
    /\ hdr = <<>>
    /\ consumed = 0

\* C12: for a non-empty fallback F, if the first non-blank line of the text
\* does not start with a space, or the text has no non-blank line, the
\* detector returns exactly F and a consumed count of len(F), whatever the
\* number of leading blank lines skipped and of lines in the text.
C12_FallbackPolicy ==
    (pc = "detected" /\ fallback # <<>>
        /\ (NonBlankLines(text) = <<>> \/ ~StartsWithSpace(NonBlankLines(text)[1])))
    => (hdr = fallback /\ consumed = Len(fallback))

\* one leading blank line was skipped, the text has three lines, the fallback two
C12_Witness ==
    /\ pc = "detected"
    /\ Len(fallback) = 2
    /\ LeadingBlanks(Split(text)) = 1
    /\ Len(Split(text)) = 3
    /\ NonBlankLines(text) # <<>>
    /\ hdr = fallback
    /\ consumed = 2

\* number of lines among ls[from..to] that are blank and do not start with a
\* space: the lines the scan consumes as spacing without collecting them
RECURSIVE SpacingLines(_, _, _)
SpacingLines(ls, from, to) ==
    IF from > to THEN 0
    ELSE (IF IsBlank(ls[from]) /\ ~StartsWithSpace(ls[from]) THEN 1 ELSE 0)
         + SpacingLines(ls, from + 1, to)

\* C13: when the detector collects at least one header line, the consumed
\* count equals the skipped leading blank lines plus the collected header
\* lines plus the blank lines embedded in the header region; the first
\* `consumed` lines are all blank or space-prefixed, the line after them (if
\* any) is non-blank and not space-prefixed, and consumed never exceeds the
\* number of lines of the text.
C13_ConsumedCount ==
    (pc = "detected" /\ fallback # <<>>
        /\ NonBlankLines(text) # <<>> /\ StartsWithSpace(NonBlankLines(text)[1]))
    => LET ls == Split(text)
           lead == LeadingBlanks(ls)
       IN /\ consumed <= Len(ls)
          /\ consumed = lead + Len(hdr) + SpacingLines(ls, lead + 1, consumed)
          /\ \A i \in 1..consumed : IsBlank(ls[i]) \/ StartsWithSpace(ls[i])
          /\ consumed < Len(ls)
             => (IsNotBlank(ls[consumed + 1]) /\ ~StartsWithSpace(ls[consumed + 1]))

\* a header line, an empty line inside the header region, then the body
C13_Witness ==
    /\ pc = "detected"
    /\ fallback # <<>>
    /\ Len(hdr) = 1
    /\ hdr # fallback
    /\ consumed = 2
    /\ Len(Split(text)) = 3
    /\ Split(text)[2] = <<>>

----------------------------------------------------------------------------
(* The segmenter *)

\* the skip counts tried on a text: none, some, all and more than all lines
SkipCounts(t) == 0..(Len(Split(t)) + 2)

\* a block as the segmenter promises it: non-empty, no blank line, no line
\* with trailing whitespace
WellFormedBlock(b) ==
    /\ b # <<>>
    /\ \A i \in 1..Len(b) : IsNotBlank(b[i]) /\ RStrip(b[i]) = b[i]

\* C14: for every text and every skip count, every block _split_blocks
\* returns is non-empty, holds no blank line, and no line of it has trailing
\* whitespace.
C14_SegmenterInvariant ==
    pc = "segmented"
    => /\ \A i \in 1..Len(blocks) : WellFormedBlock(blocks[i])
       /\ \A k \in SkipCounts(text) :
            LET bs == split_blocks(text, k) IN
            \A i \in 1..Len(bs) : WellFormedBlock(bs[i])

\* two blocks came out of a text with a line that ends in whitespace and
\* a blank line
C14_Witness ==
    /\ pc = "segmented"
    /\ Len(blocks) = 2
    /\ \E i \in 1..Len(Split(text)) :
         IsNotBlank(Split(text)[i]) /\ RStrip(Split(text)[i]) # Split(text)[i]
    /\ \E i \in 1..Len(Split(text)) : IsBlank(Split(text)[i])

\* the positions in ls, from position i on, of the lines that are not blank
RECURSIVE NonBlankIndices(_, _)
NonBlankIndices(ls, i) ==
    IF i > Len(ls) THEN <<>>
    ELSE (IF IsNotBlank(ls[i]) THEN <<i>> ELSE <<>>) \o NonBlankIndices(ls, i + 1)

\* the number of the block that holds the j-th line of Flatten(bs)
RECURSIVE BlockOf(_, _)
BlockOf(bs, j) ==
    IF j <= Len(Head(bs)) THEN 1 ELSE 1 + BlockOf(Tail(bs), j - Len(Head(bs)))

\* C15: for every text and every skip count k, the concatenation of the lines
\* of all blocks equals the right-stripped non-blank lines of the text after
\* its first k lines, in order, and two consecutive such lines are in the same
\* block exactly when no blank line lies between them in the text.
C15_SegmenterReference ==
    pc = "segmented"
    => \A k \in SkipCounts(text) :
         LET bs == split_blocks(text, k)
             rest == Drop(Split(text), k)
             idx == NonBlankIndices(rest, 1)
         IN /\ Flatten(bs) = [j \in 1..Len(idx) |-> RStrip(rest[idx[j]])]
            /\ \A j \in 1..(Len(idx) - 1) :
                 (BlockOf(bs, j) = BlockOf(bs, j + 1)) <=> (idx[j + 1] = idx[j] + 1)

\* a text with two blank lines in a row between two lines: two blocks, and
\* skipping the first line leaves the second block alone
C15_Witness ==
    /\ pc = "segmented"
    /\ \E i \in 1..(Len(Split(text)) - 3) :
         /\ IsNotBlank(Split(text)[i])
         /\ IsBlank(Split(text)[i + 1])
         /\ IsBlank(Split(text)[i + 2])
         /\ IsNotBlank(Split(text)[i + 3])
    /\ Len(split_blocks(text, 0)) = 2
    /\ split_blocks(text, 1) = <<split_blocks(text, 0)[2]>>

\* C20: the detector, the segmenter and the reassembler return a result for
\* every input, including the empty text, a text of only blank lines and a
\* skip count at or above the number of lines; in the last case
\* _split_blocks returns the empty sequence.
C20_Totality ==
    pc = "assembled"
    => /\ \A k \in SkipCounts(text) :
            k >= Len(Split(text)) => split_blocks(text, k) = <<>>
       /\ (hdr # <<>> /\ consumed >= Len(Split(text))) => blocks = <<>>
       /\ NonBlankLines(text) = <<>>
          => /\ hdr = fallback
             /\ consumed = Len(fallback)
             /\ blocks = <<>>
             /\ assemble_text_value(hdr, blocks, sections.company_block)
                    = Strip(Join(NL, hdr))

\* the fallback's consumed count exceeds the number of lines of a text that
\* holds a line: segmentation skipped past the end and returned no block
C20_Witness ==
    /\ pc = "assembled"
    /\ NonBlankLines(text) # <<>>
    /\ hdr = fallback
    /\ consumed > Len(Split(text))
    /\ blocks = <<>>

----------------------------------------------------------------------------
(* The reassembler *)

\* the lines of the blocks bs, each block preceded by one empty line
RECURSIVE SeparatedBlocks(_)
SeparatedBlocks(bs) ==
    IF bs = <<>> THEN <<>>
    ELSE <<<<>>>> \o Head(bs) \o SeparatedBlocks(Tail(bs))

\* C16 as stated: when the header lines are non-empty, merge is true and at
\* least one block exists, the lines of the output are the header lines, then
\* directly the lines of the first block, then each remaining block after one
\* blank line.
C16_MergeCase_Orig ==
    (pc = "assembled" /\ hdr # <<>> /\ sections.company_block /\ blocks # <<>>)
    => Split(out) = hdr \o blocks[1] \o SeparatedBlocks(Tail(blocks))

\* C16: when the header lines are non-empty, merge is true and at least one
\* block exists, the output is (up to the final trim of the whole text) the
\* header lines followed directly by the lines of the first block, with no
\* blank line put between them, and then each remaining block as a unit of
\* its own after one blank line; when the first header line is non-blank and
\* has no leading whitespace the trim changes nothing.
C16_MergeCase ==
    (pc = "assembled" /\ hdr # <<>> /\ sections.company_block /\ blocks # <<>>)
    => LET expected == hdr \o blocks[1] \o SeparatedBlocks(Tail(blocks)) IN
       /\ out = Strip(Join(<<NL>>, expected))
       /\ (IsNotBlank(hdr[1]) /\ LStrip(hdr[1]) = hdr[1]) => Split(out) = expected

\* two header lines merged with the first of two blocks
C16_Witness ==
    /\ pc = "assembled"
    /\ sections.company_block
    /\ Len(hdr) = 2
    /\ Len(blocks) = 2
    /\ Len(Split(out)) = 2 + Len(blocks[1]) + 1 + Len(blocks[2])
    /\ Split(out)[2] = hdr[2]
    /\ Split(out)[3] = blocks[1][1]
    /\ Split(out)[3 + Len(blocks[1])] = <<>>

\* C17: for any header lines and any sequence of valid paragraph blocks, the
\* output of the reassembler never contains two consecutive blank lines
\* (consecutive units are separated by exactly one blank line) and has no
\* leading or trailing whitespace.
C17_Separation ==
    pc = "assembled"
    => LET value == assemble_text_value(hdr, blocks, sections.company_block)
           ls == Split(value)
       IN /\ Strip(value) = value
          /\ \A i \in 1..(Len(ls) - 1) : ~(IsBlank(ls[i]) /\ IsBlank(ls[i + 1]))

----------------------------------------------------------------------------
(* The exporters *)

\* the blocks both backends segment the text into
ExportBlocks ==
    split_blocks(text, IF CandidateCount(sections, hdr) # 0 THEN consumed ELSE 0)

\* the paragraphs of the docx document after the header paragraphs
DocxBodyParagraphs == Drop(docx, CandidateCount(sections, hdr))

\* the entries of the PDF story after the header paragraph
PdfBodyParagraphs == Drop(pdf, IF CandidateCount(sections, hdr) # 0 THEN 1 ELSE 0)

IsEmptyParagraph(p) == p.text = <<>> \/ p.text = NbspEntity

\* number of blank units in a sequence of paragraphs
BlankUnits(ps) == Len(SelectSeq(ps, IsEmptyParagraph))

DocxPlan ==
    LET ps == SelectSeq(docx, IsTextParagraph) IN
    [i \in 1..Len(ps) |-> [align |-> ps[i].align, text |-> ps[i].text]]

\* the text a piece of paragraph markup shows: the placeholder shows a blank
\* line, anything else its unescaped characters
ShownText(m) == IF m = NbspEntity THEN <<>> ELSE html_unescape(m)

\* the layout plan of the PDF story: alignment and shown text of every line
RECURSIVE PdfPlanOf(_)
PdfPlanOf(story) ==
    IF story = <<>> THEN <<>>
    ELSE LET p == Head(story)
             ms == IF p.text = <<>> THEN <<>> ELSE SplitBR(p.text)
         IN [i \in 1..Len(ms) |->
                [align |-> IF p.style = "Candidate" THEN "RIGHT" ELSE "LEFT",
                 text |-> ShownText(ms[i])]]
            \o PdfPlanOf(Tail(story))

PdfPlan == PdfPlanOf(pdf)

\* the plan both backends are described by: the header lines right-aligned
\* when the effective header count is positive, then every body line
\* left-aligned in order
ReferencePlan ==
    LET n == CandidateCount(sections, hdr)
        body == Flatten(ExportBlocks)
    IN (IF n # 0 THEN [i \in 1..Len(hdr) |-> [align |-> "RIGHT", text |-> hdr[i]]]
        ELSE <<>>)
       \o [i \in 1..Len(body) |-> [align |-> "LEFT", text |-> body[i]]]

\* a plan with the surrounding whitespace of its right-aligned texts removed
StripHeaderTexts(plan) ==
    [i \in 1..Len(plan) |->
        [align |-> plan[i].align,
         text |-> IF plan[i].align = "RIGHT" THEN Strip(plan[i].text)
                  ELSE plan[i].text]]

----------------------------------------------------------------------------
(* Header and body of the same text *)

\* the detector collected its header lines from the text
CollectedFromText == fallback # <<>> /\ Collected(text) # <<>>

\* position of the line that ends the scan of ls started at position i: the
\* first line from i on that is non-blank and does not start with a space,
\* Len(ls) + 1 if there is none
RECURSIVE Terminator(_, _)
Terminator(ls, i) ==
    IF i > Len(ls) THEN i
    ELSE IF IsNotBlank(ls[i]) /\ ~StartsWithSpace(ls[i]) THEN i
    ELSE Terminator(ls, i + 1)

\* the right-stripped non-blank lines of ls from position i on
RStrippedFrom(ls, i) ==
    LET rest == SelectSeq(SubSeq(ls, i, Len(ls)), IsNotBlank) IN
    [j \in 1..Len(rest) |-> RStrip(rest[j])]

\* C21: when the detector collects at least one header line from a text,
\* _split_blocks(text, consumed) yields as body lines exactly the
\* right-stripped non-blank lines of the text from the scan-terminating line
\* onward: no line collected as header is also in a block, and no non-blank
\* line after the header region is skipped.
C21_HeaderBodyConsistency ==
    (pc = "segmented" /\ CollectedFromText)
    => LET ls == Split(text)
           t == Terminator(ls, 1)
       IN /\ Flatten(blocks) = RStrippedFrom(ls, t)
          /\ \A i \in 1..(t - 1) : IsBlank(ls[i]) \/ StartsWithSpace(ls[i])
          /\ Len(SelectSeq(hdr, IsNotBlank)) + Len(Flatten(blocks))
                = Len(NonBlankLines(text))

\* a collected header line, a blank line, then a body of two lines
C21_Witness ==
    /\ pc = "segmented"
    /\ CollectedFromText
    /\ hdr # fallback
    /\ consumed < Len(Split(text))
    /\ Len(Flatten(blocks)) >= 1
    /\ Flatten(blocks)[1] = RStrip(Split(text)[consumed + 1])
    /\ \E i \in 1..consumed : IsBlank(Split(text)[i])

\* C22: a blank line (empty or whitespace-only) met after at least one header
\* line was collected is consumed without ending the scan and without being
\* added to the header, so every header line the detector collects from the
\* text is a non-empty string with no surrounding whitespace.
C22_BlankLinesAreSpacing ==
    (pc = "detected" /\ CollectedFromText)
    => /\ \A i \in 1..Len(hdr) : hdr[i] # <<>> /\ Strip(hdr[i]) = hdr[i]
       /\ Len(hdr) = Len(SelectSeq(SubSeq(Split(text), 1, consumed), IsNotBlank))

----------------------------------------------------------------------------
(* The reassembler without merge *)

\* the header is non-empty and is not merged with a first block
NonMergeCase ==
    /\ pc = "assembled"
    /\ hdr # <<>>
    /\ ~sections.company_block \/ blocks = <<>>

\* C24 as stated: when the header lines are non-empty and either merge is
\* false or there are no blocks, the lines of the output are the header
\* lines as a first unit of their own, then every block (the first included)
\* as a later unit after one blank line.
C24_NonMergeCase_Orig ==
    NonMergeCase
    => Split(assemble_text_value(hdr, blocks, sections.company_block))
          = hdr \o SeparatedBlocks(blocks)

\* C24: when the header lines are non-empty and either merge is false or
\* there are no blocks, the output is (up to the final trim of the whole
\* text) the header lines as a first unit of their own, then every block,
\* the first included, as a later unit after one inserted blank line; when
\* the first header line is non-blank with no leading whitespace and a block
\* follows, the trim changes nothing.
C24_NonMergeCase ==
    NonMergeCase
    => LET expected == hdr \o SeparatedBlocks(blocks)
           value == assemble_text_value(hdr, blocks, sections.company_block)
       IN /\ value = Strip(Join(<<NL>>, expected))
          /\ (IsNotBlank(hdr[1]) /\ LStrip(hdr[1]) = hdr[1] /\ blocks # <<>>)
             => Split(value) = expected

\* two header lines over two blocks, merge off: a blank line after the header
C24_Witness ==
    /\ NonMergeCase
    /\ ~sections.company_block
    /\ Len(hdr) = 2
    /\ Len(blocks) = 2
    /\ Len(Split(out)) = 2 + 1 + Len(blocks[1]) + 1 + Len(blocks[2])
    /\ Split(out)[2] = hdr[2]
    /\ Split(out)[3] = <<>>
    /\ Split(out)[4] = blocks[1][1]

----------------------------------------------------------------------------
(* The runs of the app *)

\* what the detector returns on the text area's value with the candidate
\* lines of the sidebar as they are now
CurrentDetection ==
    extract_candidate_lines_from_text(edited_text, build_candidate_lines(form, sections))

\* C23: in every run of the app, after any sequence of text edits and flag or
\* form changes, the header lines and the consumed count passed to build_docx
\* and to build_pdf are those the detector computes on the current edited
\* text with the current fallback lines, and both backends receive the same
\* (text, flags, headerLines, consumed) tuple.
C23_NoStaleConsumed ==
    pc = "done"
    => /\ run.docx_args = <<edited_text, sections,
                            CurrentDetection.lines, CurrentDetection.consumed>>
       /\ run.pdf_args = run.docx_args
       /\ docx = build_docx(edited_text, sections,
                            CurrentDetection.lines, CurrentDetection.consumed)
       /\ pdf = build_pdf(edited_text, sections,
                          CurrentDetection.lines, CurrentDetection.consumed)

\* a second run in which the user has typed over the text area and the header
\* of the typed text is not the header of the rendered text
C23_Witness ==
    /\ pc = "done"
    /\ round = 1
    /\ edited_text # out
    /\ hdr # <<>>
    /\ run.docx_args[3] # hdr
    /\ run.docx_args[4] # consumed

\* the preview shows a right-aligned part
PreviewHeaderShown ==
    run.preview_parts # <<>> /\ run.preview_parts[1].align = "right"

\* the docx document holds right-aligned paragraphs
DocxHeaderRendered == \E i \in 1..Len(docx) : docx[i].align = "RIGHT"

\* the PDF story starts with a paragraph of the candidate style
PdfHeaderRendered == pdf[1].style = "Candidate"

\* the blocks the export backends segment the edited text into, given the
\* arguments they were called with
BlocksOfExport(args) ==
    split_blocks(args[1], IF CandidateCount(args[2], args[3]) # 0 THEN args[4] ELSE 0)

\* C25: in every run of the app, for every edited text, form input and
\* section flags, the preview and both export backends use the same header
\* lines and the same sequence of body blocks, and the preview shows a
\* right-aligned header exactly when the exports render one.
C25_PreviewExportAgreement ==
    pc = "done"
    => /\ run.preview_candidate_lines = run.docx_args[3]
       /\ run.preview_candidate_lines = run.pdf_args[3]
       /\ run.preview_blocks = BlocksOfExport(run.docx_args)
       /\ run.preview_blocks = BlocksOfExport(run.pdf_args)
       /\ PreviewHeaderShown <=> DocxHeaderRendered
       /\ PreviewHeaderShown <=> PdfHeaderRendered
       /\ [i \in 1..Len(DocxLines(docx)) |-> DocxLines(docx)[i]]
            = [i \in 1..Len(run.preview_candidate_lines) |->
                    Strip(run.preview_candidate_lines[i])]
              \o Flatten(run.preview_blocks)

\* a header and a body block on screen and in both exports
C25_Witness ==
    /\ pc = "done"
    /\ PreviewHeaderShown
    /\ DocxHeaderRendered
    /\ PdfHeaderRendered
    /\ run.preview_blocks # <<>>

\* C28: the export file name is never empty: in every run, if the file name
\* input is blank after trimming, the export name is the current default name
\* ("cover_letter" when company, position and date are all empty) and the
\* custom flag is cleared; at the end of every run export_name_custom is
\* true exactly when the export name differs from the current default.
C28_ExportFileName ==
    pc \in {"named", "done"}
    => LET blank == Strip(run.export_name_input) = <<>>
           all_empty == /\ Strip(form.company_value) = <<>>
                        /\ Strip(form.position_value) = <<>>
                        /\ form.today = <<>>
       IN /\ run.export_name # <<>>
          /\ blank => (run.export_name = default_export_name(form)
                       /\ ~session.export_name_custom)
          /\ (blank /\ all_empty) => run.export_name = cover_letter
          /\ session.export_name_custom
             <=> (run.export_name # default_export_name(form))
          /\ session.export_filename_state = run.export_name

\* in a second run the user leaves a single space in the file name input and
\* no company, position or date is set
C28_Witness ==
    /\ pc = "named"
    /\ round = 1
    /\ run.export_name_input = <<SP>>
    /\ run.export_name = cover_letter
    /\ ~session.export_name_custom

----------------------------------------------------------------------------
(* The contact list of the sidebar (src/app.py:756-831) *)

Email == <<"E", "m", "a", "i", "l">>
LinkedIn == <<"L", "i", "n", "k", "e", "d", "I", "n">>
Xing == <<"X", "i", "n", "g">>
Website == <<"W", "e", "b", "s", "i", "t", "e">>
Label == <<"L", "a", "b", "e", "l">>

\* str(n) for the small numbers that occur
Digit(n) == <<"0", "1", "2", "3", "4", "5", "6", "7", "8", "9">>[n + 1]

\* f"Contact {n}"
ContactLabel(n) == <<"C", "o", "n", "t", "a", "c", "t", SP, Digit(n)>>

\* _sanitize_contact(entry, fallback_label): entry is a dict or a str
sanitize_contact(entry, fallback_label) ==
    IF entry.kind = "dict"
    THEN [label |-> IF entry.label # <<>> THEN entry.label ELSE fallback_label,
          value |-> entry.value]
    ELSE [label |-> fallback_label, value |-> entry.value]

\* _build_default_contacts(raw_defaults)
build_default_contacts(raw_defaults) ==
    LET fallback_labels == <<Email, LinkedIn, Xing, Website>> IN
    [i \in 1..Len(raw_defaults) |->
        sanitize_contact(raw_defaults[i],
                         IF i <= Len(fallback_labels) THEN fallback_labels[i]
                         ELSE ContactLabel(i))]

\* defaults or [{"label": "Email", "value": profile applicant email}]
DefaultContacts(profile) ==
    LET defaults == build_default_contacts(profile.contact_links) IN
    IF defaults # <<>> THEN defaults
    ELSE <<[label |-> Email, value |-> profile.email]>>

\* the loop over the entries: every entry becomes what its two text inputs
\* hold, stripped, with "Label" for an empty label
StripEntries(entries) ==
    [i \in 1..Len(entries) |->
        [label |-> IF Strip(entries[i].label) # <<>> THEN Strip(entries[i].label)
                   ELSE Label,
         value |-> Strip(entries[i].value)]]

\* lst without its element at position i
RemoveAt(lst, i) == SubSeq(lst, 1, i - 1) \o SubSeq(lst, i + 1, Len(lst))

\* profiles: no contact link, a str, a dict without a label and a str
Profiles ==
    [email : {<<>>, <<"e">>},
     contact_links : {<<>>,
                      <<[kind |-> "str", label |-> <<>>, value |-> <<"v">>]>>,
                      <<[kind |-> "dict", label |-> <<>>, value |-> <<"w", SP>>],
                        [kind |-> "str", label |-> <<>>, value |-> <<>>]>>}]

\* what the user may type into a label or a value input
TypedLabels == {<<>>, <<SP, "l">>}
TypedValues == {<<>>, <<"v">>}

\* first run: "contact_entries" is not in the session state yet
InitContacts ==
    /\ pc = "contacts"
    /\ round = 0
    /\ form \in Profiles
    /\ session = [contact_entries |-> StripEntries(DefaultContacts(form))]
    /\ run = [pressed |-> "none", entries_before |-> 0]
    /\ edited_text = <<>>
    /\ cli = NoCli
    /\ text = <<>>
    /\ fallback = <<>>
    /\ sections = [candidate_block |-> TRUE, company_block |-> TRUE]
    /\ hdr = <<>>
    /\ consumed = 0
    /\ blocks = <<>>
    /\ out = <<>>
    /\ prevHdr = <<>>
    /\ prevBlocks = <<>>
    /\ docx = NoDoc
    /\ pdf = NoDoc

\* what a run of the contact section leaves unchanged
ContactsFrame ==
    UNCHANGED <<pc, round, text, fallback, sections, hdr, consumed, blocks, out,
                prevHdr, prevBlocks, docx, pdf, form, edited_text, cli>>

\* a run after the user typed into the inputs of entry idx
EditContact ==
    /\ pc = "contacts"
    /\ \E idx \in 1..Len(session.contact_entries), l \in TypedLabels, v \in TypedValues :
         session' = [contact_entries |->
                        StripEntries([session.contact_entries EXCEPT
                                         ![idx] = [label |-> l, value |-> v]])]
    /\ run' = [pressed |-> "edit", entries_before |-> Len(session.contact_entries)]
    /\ ContactsFrame

\* a run in which a remove button takes its entry away even when it is the
\* only one
RemoveContactUnguarded ==
    /\ pc = "contacts"
    /\ \E idx \in 1..Len(session.contact_entries) :
         session' = [contact_entries |->
                        RemoveAt(StripEntries(session.contact_entries), idx)]
    /\ run' = [pressed |-> "remove", entries_before |-> Len(session.contact_entries)]
    /\ ContactsFrame

\* a run after the user pressed the remove button of entry idx
RemoveContact ==
    /\ pc = "contacts"
    /\ \E idx \in 1..Len(session.contact_entries) :
         LET entries == StripEntries(session.contact_entries)
             remove_indices == IF Len(entries) > 1 THEN {idx} ELSE {}
         IN session' = [contact_entries |->
                           IF remove_indices # {} THEN RemoveAt(entries, idx)
                           ELSE entries]
    /\ run' = [pressed |-> "remove", entries_before |-> Len(session.contact_entries)]
    /\ ContactsFrame

\* a run after the user pressed the add button
AddContact ==
    /\ pc = "contacts"
    /\ Len(session.contact_entries) < MaxContacts
    /\ LET entries == StripEntries(session.contact_entries) IN
       session' = [contact_entries |->
                      Append(entries, [label |-> ContactLabel(Len(entries) + 1),
                                       value |-> <<>>])]
    /\ run' = [pressed |-> "add", entries_before |-> Len(session.contact_entries)]
    /\ ContactsFrame

\* a run after the user pressed the reset button
ResetContacts ==
    /\ pc = "contacts"
    /\ session' = [contact_entries |-> DefaultContacts(form)]
    /\ run' = [pressed |-> "reset", entries_before |-> Len(session.contact_entries)]
    /\ ContactsFrame

NextContacts ==
    \/ EditContact
    \/ RemoveContact
    \/ AddContact
    \/ ResetContacts

SpecContacts == InitContacts /\ [][NextContacts]_vars

\* C26: after any sequence of runs in which at most one add, remove or reset
\* button is pressed per run, st.session_state.contact_entries holds at least
\* one entry: a remove is ignored when only one entry is left, and reset
\* restores the defaults or a single Email entry.
C26_ContactListNonEmpty ==
    /\ Len(session.contact_entries) >= 1
    /\ (run.pressed = "remove" /\ run.entries_before = 1)
       => Len(session.contact_entries) = 1
    /\ (run.pressed = "remove" /\ run.entries_before > 1)
       => Len(session.contact_entries) = run.entries_before - 1
    /\ run.pressed = "reset"
       => session.contact_entries
            = (IF form.contact_links # <<>>
               THEN build_default_contacts(form.contact_links)
               ELSE <<[label |-> Email, value |-> form.email]>>)

\* the remove button of the only entry left was pressed, and the entry stays
C26_Witness ==
    /\ run.pressed = "remove"
    /\ run.entries_before = 1
    /\ Len(session.contact_entries) = 1

----------------------------------------------------------------------------
(* The skills, degrees and certifications selectors (src/app.py:462-739) *)

\* x in lst
InList(x, lst) == \E i \in 1..Len(lst) : lst[i] = x

\* [item for item in lst if item in options]
KeepIn(lst, options) == SelectSeq(lst, LAMBDA item : InList(item, options))

\* the add handler appending a value to the custom entries without looking
\* at the base options
add_custom_entry_any(base_options, custom_entries, value) ==
    IF ~InList(value, custom_entries)
    THEN Append(custom_entries, value) ELSE custom_entries

\* if value not in base_options and value not in custom_entries: append
add_custom_entry(base_options, custom_entries, value) ==
    IF ~InList(value, base_options) /\ ~InList(value, custom_entries)
    THEN Append(custom_entries, value) ELSE custom_entries

\* if value not in current_selection: current_selection + [value]
add_to_selection(current_selection, value) ==
    IF ~InList(value, current_selection)
    THEN Append(current_selection, value) ELSE current_selection

\* options of _render_skill_selector
skill_options(base_options, custom_entries) ==
    base_options \o SelectSeq(custom_entries, LAMBDA entry : ~InList(entry, base_options))

\* degree_options, cert_options
degree_options(degrees_source, custom_entries) == degrees_source \o custom_entries

\* the base options of the skill block and the degrees of the profile
BaseSkills == <<<<"b">>>>
DegreesSource == <<<<"d">>>>

\* what the user may type into an add input
TypedEntries == {<<>>, <<"b">>, <<"d">>, <<SP, "x">>, <<"x">>}

\* the sub-lists of lst, in the order of lst
RECURSIVE SubLists(_)
SubLists(lst) ==
    IF lst = <<>> THEN {<<>>}
    ELSE LET rest == SubLists(Tail(lst)) IN
         rest \cup {<<Head(lst)>> \o r : r \in rest}

\* first run: no custom entry, every option selected
InitSelectors ==
    /\ pc = "selectors"
    /\ round = 0
    /\ session = [custom_skills |-> <<>>,
                  skills_selection |-> skill_options(BaseSkills, <<>>),
                  custom_degree_entries |-> <<>>,
                  degrees_selection |-> degree_options(DegreesSource, <<>>)]
    /\ run = [pressed |-> "none", value |-> <<>>]
    /\ form = NoForm
    /\ edited_text = <<>>
    /\ cli = NoCli
    /\ text = <<>>
    /\ fallback = <<>>
    /\ sections = [candidate_block |-> TRUE, company_block |-> TRUE]
    /\ hdr = <<>>
    /\ consumed = 0
    /\ blocks = <<>>
    /\ out = <<>>
    /\ prevHdr = <<>>
    /\ prevBlocks = <<>>
    /\ docx = NoDoc
    /\ pdf = NoDoc

\* what a run of the selectors leaves unchanged
SelectorsFrame ==
    UNCHANGED <<pc, round, text, fallback, sections, hdr, consumed, blocks, out,
                prevHdr, prevBlocks, docx, pdf, form, edited_text, cli>>

\* the add button of a skill block, then the run st.experimental_rerun starts
AddSkill ==
    /\ pc = "selectors"
    /\ \E new_skill \in TypedEntries :
         LET value == Strip(new_skill)
             custom_entries ==
                 IF value # <<>>
                 THEN add_custom_entry(BaseSkills, session.custom_skills, value)
                 ELSE session.custom_skills
             selection ==
                 IF value # <<>>
                 THEN add_to_selection(session.skills_selection, value)
                 ELSE session.skills_selection
             options == skill_options(BaseSkills, custom_entries)
         IN /\ session' = [session EXCEPT
                             !.custom_skills = custom_entries,
                             !.skills_selection = KeepIn(selection, options)]
            /\ run' = [pressed |-> "add_skill", value |-> value]
    /\ SelectorsFrame

\* a run with the select-all button of a skill block pressed
SelectAllSkills ==
    /\ pc = "selectors"
    /\ session' = [session EXCEPT
                     !.skills_selection = skill_options(BaseSkills, session.custom_skills)]
    /\ run' = [pressed |-> "select_all_skills", value |-> <<>>]
    /\ SelectorsFrame

\* a run with the clear button of a skill block pressed
ClearSkills ==
    /\ pc = "selectors"
    /\ session' = [session EXCEPT !.skills_selection = <<>>]
    /\ run' = [pressed |-> "clear_skills", value |-> <<>>]
    /\ SelectorsFrame

\* a run after the user changed the multiselect of a skill block
PickSkills ==
    /\ pc = "selectors"
    /\ \E picked \in SubLists(skill_options(BaseSkills, session.custom_skills)) :
         session' = [session EXCEPT !.skills_selection = picked]
    /\ run' = [pressed |-> "pick_skills", value |-> <<>>]
    /\ SelectorsFrame

\* the add button of the degrees (the certifications are handled alike), then
\* the run st.experimental_rerun starts
AddDegree ==
    /\ pc = "selectors"
    /\ \E new_degree \in TypedEntries :
         LET value == Strip(new_degree)
             custom_entries ==
                 IF value # <<>>
                 THEN add_custom_entry(DegreesSource, session.custom_degree_entries, value)
                 ELSE session.custom_degree_entries
             selection ==
                 IF value # <<>>
                 THEN add_to_selection(session.degrees_selection, value)
                 ELSE session.degrees_selection
             options == degree_options(DegreesSource, custom_entries)
         IN /\ session' = [session EXCEPT
                             !.custom_degree_entries = custom_entries,
                             !.degrees_selection = KeepIn(selection, options)]
            /\ run' = [pressed |-> "add_degree", value |-> value]
    /\ SelectorsFrame

\* a run with the select-all button of the degrees pressed
SelectAllDegrees ==
    /\ pc = "selectors"
    /\ session' = [session EXCEPT
                     !.degrees_selection =
                         degree_options(DegreesSource, session.custom_degree_entries)]
    /\ run' = [pressed |-> "select_all_degrees", value |-> <<>>]
    /\ SelectorsFrame

\* a run with the clear button of the degrees pressed
ClearDegrees ==
    /\ pc = "selectors"
    /\ session' = [session EXCEPT !.degrees_selection = <<>>]
    /\ run' = [pressed |-> "clear_degrees", value |-> <<>>]
    /\ SelectorsFrame

\* a run after the user changed the multiselect of the degrees
PickDegrees ==
    /\ pc = "selectors"
    /\ \E picked \in SubLists(degree_options(DegreesSource, session.custom_degree_entries)) :
         session' = [session EXCEPT !.degrees_selection = picked]
    /\ run' = [pressed |-> "pick_degrees", value |-> <<>>]
    /\ SelectorsFrame

NextSelectors ==
    \/ AddSkill
    \/ SelectAllSkills
    \/ ClearSkills
    \/ PickSkills
    \/ AddDegree
    \/ SelectAllDegrees
    \/ ClearDegrees
    \/ PickDegrees

SpecSelectors == InitSelectors /\ [][NextSelectors]_vars

\* lst holds no entry twice
NoDuplicate(lst) == \A i, j \in 1..Len(lst) : lst[i] = lst[j] => i = j

\* C27: after any sequence of add-custom, select-all and clear actions, the
\* selection of a skill block (and likewise of the degrees and the
\* certifications) contains only entries of the current option list (base
\* options plus custom entries), and the custom entry list holds no duplicate
\* and no entry that is already a base option.
C27_SelectionWithinOptions ==
    /\ \A i \in 1..Len(session.skills_selection) :
         \/ InList(session.skills_selection[i], BaseSkills)
         \/ InList(session.skills_selection[i], session.custom_skills)
    /\ NoDuplicate(session.custom_skills)
    /\ \A i \in 1..Len(session.custom_skills) :
         ~InList(session.custom_skills[i], BaseSkills)
    /\ \A i \in 1..Len(session.degrees_selection) :
         \/ InList(session.degrees_selection[i], DegreesSource)
         \/ InList(session.degrees_selection[i], session.custom_degree_entries)
    /\ NoDuplicate(session.custom_degree_entries)
    /\ \A i \in 1..Len(session.custom_degree_entries) :
         ~InList(session.custom_degree_entries[i], DegreesSource)

\* with two custom skills in the list, the user adds a base option again: it
\* is selected, and the custom list does not take it
C27_Witness ==
    /\ run.pressed = "add_skill"
    /\ InList(run.value, BaseSkills)
    /\ Len(session.custom_skills) = 2
    /\ InList(run.value, session.skills_selection)
    /\ Len(session.custom_degree_entries) >= 1

----------------------------------------------------------------------------
(* The command line tool (src/cover_letter_generator) *)

\* what _read_json and the checks of the loaders find in a configuration file
ProfileFiles == {"ok", "not found", "invalid json", "missing applicant field",
                 "list is not a list"}
SectionsFiles == {"ok", "not found", "invalid json", "sections is not a list",
                  "section without template"}
OverridesFiles == {"none", "ok", "not found", "invalid json"}

\* what requests.get and raise_for_status do
JobPostings == {"ok", "request exception"}

\* what rendering the section templates does
Templates == {"ok", "template error"}

\* the rendered sections: the stripped, non-empty texts of the enabled ones
RenderedSections == {<<>>, <<<<"A">>>>, <<<<"A">>, <<"B", NL, "C">>>>}

\* the output path before the run: no directory, an empty directory, or a
\* directory with the letter of an earlier run
OutputPaths ==
    {[directory |-> FALSE, file |-> <<"absent">>],
     [directory |-> TRUE, file |-> <<"absent">>],
     [directory |-> TRUE, file |-> <<"o", "l", "d", NL>>]}

\* separator.join(rendered_sections).strip() + "\n"
output_content(rendered_sections, format_) ==
    LET separator == IF format_ = "markdown" THEN <<NL, NL>> ELSE <<NL>>
    IN Strip(Join(separator, rendered_sections)) \o <<NL>>

InitCli ==
    /\ pc = "main"
    /\ \E path \in OutputPaths, format_ \in {"markdown", "text"} :
         cli = [profile |-> "ok", sections |-> "ok", overrides |-> "none",
                job |-> "ok", templates |-> "ok", format_ |-> format_,
                rendered_sections |-> <<>>,
                before |-> path, directory |-> path.directory, file |-> path.file,
                raised |-> "none", directory_made |-> FALSE, file_written |-> FALSE,
                stdout |-> "", exit_status |-> -1]
    /\ round = 0
    /\ form = NoForm
    /\ edited_text = <<>>
    /\ session = NoSession
    /\ run = NoRun
    /\ text = <<>>
    /\ fallback = <<>>
    /\ sections = [candidate_block |-> TRUE, company_block |-> TRUE]
    /\ hdr = <<>>
    /\ consumed = 0
    /\ blocks = <<>>
    /\ out = <<>>
    /\ prevHdr = <<>>
    /\ prevBlocks = <<>>
    /\ docx = NoDoc
    /\ pdf = NoDoc

\* what the command line tool leaves unchanged
CliFrame ==
    UNCHANGED <<round, text, fallback, sections, hdr, consumed, blocks, out,
                prevHdr, prevBlocks, docx, pdf, form, edited_text, session, run>>

\* generate_cover_letter making the output directory before it loads anything
LoadProfileAfterMkdir ==
    /\ pc = "main"
    /\ \E file \in ProfileFiles :
         /\ cli' = [cli EXCEPT !.profile = file,
                               !.directory = TRUE,
                               !.directory_made = ~cli.directory,
                               !.raised = IF file = "ok" THEN "none" ELSE "ConfigError"]
         /\ pc' = IF file = "ok" THEN "profile loaded" ELSE "raised"
    /\ CliFrame

\* profile = load_profile(profile_path)
LoadProfile ==
    /\ pc = "main"
    /\ \E file \in ProfileFiles :
         /\ cli' = [cli EXCEPT !.profile = file,
                               !.raised = IF file = "ok" THEN "none" ELSE "ConfigError"]
         /\ pc' = IF file = "ok" THEN "profile loaded" ELSE "raised"
    /\ CliFrame

\* sections = load_sections(sections_path)
LoadSections ==
    /\ pc = "profile loaded"
    /\ \E file \in SectionsFiles :
         /\ cli' = [cli EXCEPT !.sections = file,
                               !.raised = IF file = "ok" THEN "none" ELSE "ConfigError"]
         /\ pc' = IF file = "ok" THEN "sections loaded" ELSE "raised"
    /\ CliFrame

\* overrides = load_overrides(overrides_path)
LoadOverrides ==
    /\ pc = "sections loaded"
    /\ \E file \in OverridesFiles :
         /\ cli' = [cli EXCEPT !.overrides = file,
                               !.raised = IF file \in {"none", "ok"} THEN "none"
                                          ELSE "ConfigError"]
         /\ pc' = IF file \in {"none", "ok"} THEN "overrides loaded" ELSE "raised"
    /\ CliFrame

\* job_details = fetch_job_details(job_url)
FetchJobDetails ==
    /\ pc = "overrides loaded"
    /\ \E posting \in JobPostings :
         /\ cli' = [cli EXCEPT !.job = posting,
                               !.raised = IF posting = "ok" THEN "none"
                                          ELSE "JobDataError"]
         /\ pc' = IF posting = "ok" THEN "job fetched" ELSE "raised"
    /\ CliFrame

\* build_context and engine.render_sections(sections, context)
RenderSections ==
    /\ pc = "job fetched"
    /\ \E t \in Templates, rendered \in RenderedSections :
         /\ cli' = [cli EXCEPT !.templates = t,
                               !.rendered_sections = IF t = "ok" THEN rendered ELSE <<>>,
                               !.raised = IF t = "ok" THEN "none" ELSE "TemplateError"]
         /\ pc' = IF t = "ok" THEN "rendered" ELSE "raised"
    /\ CliFrame

\* output_path.parent.mkdir(parents=True, exist_ok=True);
\* output_path.write_text(output_content); return output_path
WriteOutput ==
    /\ pc = "rendered"
    /\ cli' = [cli EXCEPT
                 !.directory = TRUE,
                 !.directory_made = ~cli.directory,
                 !.file = output_content(cli.rendered_sections, cli.format_),
                 !.file_written = TRUE]
    /\ pc' = "returned"
    /\ CliFrame

\* except (ConfigError, JobDataError): parser.exit(status=1, message=...)
MainExitsOnError ==
    /\ pc = "raised"
    /\ cli.raised \in {"ConfigError", "JobDataError"}
    /\ cli' = [cli EXCEPT !.exit_status = 1]
    /\ pc' = "exited"
    /\ CliFrame

\* any other exception leaves main uncaught: the interpreter ends with status 1
MainUncaught ==
    /\ pc = "raised"
    /\ cli.raised \notin {"ConfigError", "JobDataError"}
    /\ cli' = [cli EXCEPT !.exit_status = 1]
    /\ pc' = "exited"
    /\ CliFrame

\* sys.stdout.write("Cover letter created at ..."); return 0
MainSucceeds ==
    /\ pc = "returned"
    /\ cli' = [cli EXCEPT !.stdout = "Cover letter created", !.exit_status = 0]
    /\ pc' = "exited"
    /\ CliFrame

NextCli ==
    \/ LoadProfile
    \/ LoadSections
    \/ LoadOverrides
    \/ FetchJobDetails
    \/ RenderSections
    \/ WriteOutput
    \/ MainExitsOnError
    \/ MainUncaught
    \/ MainSucceeds

SpecCli == InitCli /\ [][NextCli]_vars

\* C29: when loading the profile, the sections or the overrides raises
\* ConfigError, or fetching the job posting raises JobDataError,
\* generate_cover_letter writes no output file and makes no output directory,
\* and main exits with status 1 without printing the success message; the
\* output file is written only after every loading, fetching and rendering
\* step has succeeded.
C29_CliFailureLeavesNoOutput ==
    /\ (\/ cli.profile # "ok"
        \/ cli.sections # "ok"
        \/ cli.overrides \notin {"none", "ok"}
        \/ cli.job # "ok")
       => /\ ~cli.file_written
          /\ ~cli.directory_made
          /\ cli.file = cli.before.file
          /\ cli.directory = cli.before.directory
          /\ cli.stdout = ""
          /\ pc = "exited" => cli.exit_status = 1
          /\ pc \in {"raised", "exited"}
    /\ cli.file_written
       => /\ cli.profile = "ok"
          /\ cli.sections = "ok"
          /\ cli.overrides \in {"none", "ok"}
          /\ cli.job = "ok"
          /\ cli.templates = "ok"

\* the job posting could not be fetched after every file had loaded: main has
\* exited with status 1 and nothing was written
C29_Witness ==
    /\ pc = "exited"
    /\ cli.profile = "ok"
    /\ cli.sections = "ok"
    /\ cli.overrides = "ok"
    /\ cli.raised = "JobDataError"
    /\ cli.exit_status = 1
    /\ ~cli.before.directory
    /\ ~cli.directory
    /\ cli.file = <<"absent">>

====
